---- MODULE Spec2Model ----
(***************************************************************************)
(* Model of fingerviewer.py: the multi-touch (protocol B) decoder          *)
(* MouseDevice.receive and the FingerViewer it notifies.                   *)
(***************************************************************************)
EXTENDS Integers, Sequences, FiniteSets, TLC

(* ---- input-event-codes.h numbers, as set at the top of the file ---- *)
EV_SYN == 0
EV_KEY == 1
EV_REL == 2
EV_ABS == 3
SYN_REPORT == 0
SYN_DROPPED == 3
ABS_PRESSURE == 24
ABS_TILT_X == 26
ABS_MT_SLOT == 47
ABS_MT_POSITION_X == 53
ABS_MT_POSITION_Y == 54
ABS_MT_TRACKING_ID == 57
ABS_MT_PRESSURE == 58

(* ---- bounds of the explored input values: slots -1 .. MaxSlot, tracking *)
(* IDs -1 .. MaxTid, the two ends 0 and MaxPos of an axis, and pressure 0  *)
(* or MaxPressure; MaxIdle callbacks may be queued during a scenario; the  *)
(* two threads are followed over MaxReports reports ----                   *)
MaxSlot == 0
MaxTid == 1
MaxPos == 1
MaxPressure == 1
MaxIdle == 2
MaxReports == 2

SlotValues == -1 .. MaxSlot
TidValues == -1 .. MaxTid
PosValues == {0, MaxPos}
PressureValues == {0, MaxPressure}

VARIABLES
    slot,      \* MouseDevice.slot
    slots,     \* MouseDevice.slots: slot -> tracking ID
    tid,       \* MouseDevice.tid
    tids,      \* MouseDevice.tids: tracking ID -> [x, y, pressure]
    raised,    \* receive has let a KeyError escape
    fingers,   \* FingerViewer.fingers
    idle,      \* number of _draw_fingers callbacks queued by GLib.idle_add
    script,    \* events the device is still to deliver in the running scenario
    mark,      \* the running scenario, its parameters and the dicts at its start
    emitted,   \* the update_finger calls of each report since the scenario began
    lastReport, \* the event Read handed to receive last was (EV_SYN, SYN_REPORT)
    lastKind,  \* how receive dispatched the event it handled last, where recorded
    running,   \* FingerViewer._running
    rpc,       \* where the reader thread is in readValues
    todo,      \* items of tids the report loop of receive has still to pass on
    gpc,       \* where the GUI thread is: main loop, _draw_fingers, or quit
    gi,        \* position of the for loop of _draw_fingers in fingers
    reports,   \* the update_finger calls of each report, numbered
    ftag,      \* for each item of fingers, the number of the report it is of
    frame,     \* the fingers drawn so far by the running _draw_fingers
    frames     \* the fingers drawn by each finished _draw_fingers

vars == <<slot, slots, tid, tids, raised, fingers, idle, script, mark, emitted,
          lastReport, lastKind, running, rpc, todo, gpc, gi, reports, ftag,
          frame, frames>>
threads == <<running, rpc, todo, gpc, gi, reports, ftag, frame, frames>>
scenario == <<script, mark, emitted, lastReport, lastKind>>
tracker == <<slot, slots, tid, tids>>
device == <<slot, slots, tid, tids, raised, fingers, idle>>

(* a Python dict is a function on its set of keys *)
EmptyDict == [k \in {} |-> 0]
DictDel(d, k) == [j \in (DOMAIN d) \ {k} |-> d[j]]
DictSet(d, k, v) == [j \in (DOMAIN d) \cup {k} |-> IF j = k THEN v ELSE d[j]]
(* plain assignment d[k] = v in place of setdefault *)
DictSetDefault_Overwrite(d, k, v) == DictSet(d, k, v)

DictSetDefault(d, k, v) == IF k \in DOMAIN d THEN d ELSE DictSet(d, k, v)
(* d[k][i] = v on a contact list [x, y, pressure] *)
ListSet(d, k, i, v) == [d EXCEPT ![k] = [@ EXCEPT ![i] = v]]

(* the events the device is made to deliver: <<etype, ecode, evalue>> *)
Events ==
    ({EV_ABS} \X {ABS_MT_SLOT} \X SlotValues)
    \cup ({EV_ABS} \X {ABS_MT_TRACKING_ID} \X TidValues)
    \cup ({EV_ABS} \X {ABS_MT_POSITION_X, ABS_MT_POSITION_Y} \X PosValues)
    \cup ({EV_ABS} \X {ABS_PRESSURE} \X PressureValues)
    \cup ({EV_ABS} \X {ABS_TILT_X, ABS_MT_PRESSURE} \X {0, 1})
    \cup ({EV_SYN} \X {SYN_REPORT, SYN_DROPPED} \X {0})
    \cup ({EV_KEY, EV_REL} \X {ABS_MT_POSITION_X, ABS_MT_TRACKING_ID} \X {1})

AbsEvent(ecode, evalue) == <<EV_ABS, ecode, evalue>>
Report == <<EV_SYN, SYN_REPORT, 0>>
IsReport(event) == event[1] = EV_SYN /\ event[2] = SYN_REPORT
NoMark == <<"none", <<>>, <<>>>>

Init ==
    /\ slot = 0
    /\ slots = EmptyDict
    /\ tid = 0
    /\ tids = EmptyDict
    /\ raised = FALSE
    /\ fingers = <<>>
    /\ idle = 0
    /\ script = <<>>
    /\ mark = NoMark
    /\ emitted = <<>>
    /\ lastReport = FALSE
    /\ lastKind = "none"
    /\ running = TRUE
    /\ rpc = "test"
    /\ todo = <<>>
    /\ gpc = "main"
    /\ gi = 1
    /\ reports = <<>>
    /\ ftag = <<>>
    /\ frame = <<>>
    /\ frames = <<>>

(* an uncaught KeyError: the handler stops before it has changed anything *)
KeyError ==
    /\ raised' = TRUE
    /\ UNCHANGED <<slot, slots, tid, tids, fingers, idle>>

Return ==
    UNCHANGED <<slot, slots, tid, tids, raised, fingers, idle>>

PositionX(evalue) ==
    IF tid \in DOMAIN tids
    THEN /\ tids' = ListSet(tids, tid, 1, evalue)
         /\ UNCHANGED <<slot, slots, tid, raised, fingers, idle>>
    ELSE KeyError

(* index 0 written in place of index 1 *)
PositionY_WritesX(evalue) ==
    IF tid \in DOMAIN tids
    THEN /\ tids' = ListSet(tids, tid, 1, evalue)
         /\ UNCHANGED <<slot, slots, tid, raised, fingers, idle>>
    ELSE KeyError

PositionY(evalue) ==
    IF tid \in DOMAIN tids
    THEN /\ tids' = ListSet(tids, tid, 2, evalue)
         /\ UNCHANGED <<slot, slots, tid, raised, fingers, idle>>
    ELSE KeyError

(* no early return on the value 0 *)
Pressure_ZeroResets(evalue) ==
    IF tid \in DOMAIN tids
    THEN /\ tids' = ListSet(tids, tid, 3, evalue)
         /\ UNCHANGED <<slot, slots, tid, raised, fingers, idle>>
    ELSE Return

Pressure(evalue) ==
    IF evalue = 0
    THEN Return
    ELSE IF tid \in DOMAIN tids
         THEN /\ tids' = ListSet(tids, tid, 3, evalue)
              /\ UNCHANGED <<slot, slots, tid, raised, fingers, idle>>
         ELSE Return

(* self.tid is set to the slot number when the slot has no tracking ID *)
MtSlot_ResetsTid(evalue) ==
    /\ slot' = evalue
    /\ tid' = IF evalue \in DOMAIN slots THEN slots[evalue] ELSE evalue
    /\ UNCHANGED <<slots, tids, raised, fingers, idle>>

MtSlot(evalue) ==
    /\ slot' = evalue
    /\ tid' = IF evalue \in DOMAIN slots THEN slots[evalue] ELSE tid
    /\ UNCHANGED <<slots, tids, raised, fingers, idle>>

(* the slot entry is left behind *)
FingerGone_KeepsSlot ==
    IF tid \in DOMAIN tids
    THEN /\ tids' = DictDel(tids, tid)
         /\ UNCHANGED <<slot, slots, tid, raised, fingers, idle>>
    ELSE KeyError

(* the contact is left behind *)
FingerGone_KeepsContact ==
    IF tid \in DOMAIN tids
    THEN /\ slots' = IF slot \in DOMAIN slots THEN DictDel(slots, slot) ELSE slots
         /\ UNCHANGED <<slot, tid, tids, raised, fingers, idle>>
    ELSE KeyError

FingerGone ==
    IF tid \in DOMAIN tids
    THEN /\ tids' = DictDel(tids, tid)
         /\ slots' = IF slot \in DOMAIN slots THEN DictDel(slots, slot) ELSE slots
         /\ UNCHANGED <<slot, tid, raised, fingers, idle>>
    ELSE KeyError

(* the contact the slot held before is deleted *)
NewFinger_DropsOld(evalue) ==
    /\ tid' = evalue
    /\ slots' = DictSet(slots, slot, evalue)
    /\ tids' = DictSetDefault(IF slot \in DOMAIN slots /\ slots[slot] # evalue
                              THEN DictDel(tids, slots[slot]) ELSE tids,
                              evalue, <<0, 0, 0>>)
    /\ UNCHANGED <<slot, raised, fingers, idle>>

(* self.tid is not moved to the new tracking ID *)
NewFinger_KeepsTid(evalue) ==
    /\ slots' = DictSet(slots, slot, evalue)
    /\ tids' = DictSetDefault(tids, evalue, <<0, 0, 0>>)
    /\ UNCHANGED <<slot, tid, raised, fingers, idle>>

NewFinger(evalue) ==
    /\ tid' = evalue
    /\ slots' = DictSet(slots, slot, evalue)
    /\ tids' = DictSetDefault(tids, evalue, <<0, 0, 0>>)
    /\ UNCHANGED <<slot, raised, fingers, idle>>

(* no test for the value -1 *)
TrackingId_NoSentinel(evalue) == NewFinger(evalue)

TrackingId(evalue) ==
    IF evalue = -1 THEN FingerGone ELSE NewFinger(evalue)

RECURSIVE SetToSeq(_)
SetToSeq(S) ==
    IF S = {} THEN <<>>
    ELSE LET m == CHOOSE a \in S : \A b \in S : a <= b
         IN <<m>> \o SetToSeq(S \ {m})

(* pos[1] and pos[0] passed in the wrong order *)
Snapshot_Swapped(d) ==
    LET keys == SetToSeq(DOMAIN d)
    IN [n \in 1 .. Len(keys) |->
          <<keys[n], d[keys[n]][2], d[keys[n]][1], 0, 0, d[keys[n]][3]>>]

(* the update_finger calls of one report, one per item of tids *)
Snapshot(d) ==
    LET keys == SetToSeq(DOMAIN d)
    IN [n \in 1 .. Len(keys) |->
          <<keys[n], d[keys[n]][1], d[keys[n]][2], 0, 0, d[keys[n]][3]>>]

(* the contacts are dropped once reported *)
SynReport_Clears ==
    /\ fingers' = fingers \o Snapshot(tids)
    /\ idle' = idle + 1
    /\ tids' = EmptyDict
    /\ UNCHANGED <<slot, slots, tid, raised>>

SynReport ==
    /\ fingers' = fingers \o Snapshot(tids)
    /\ idle' = idle + 1
    /\ UNCHANGED <<slot, slots, tid, tids, raised>>

(* ABS_MT_PRESSURE taken for ABS_PRESSURE *)
OnAbs_MtPressure(ecode, evalue) ==
    CASE ecode = ABS_MT_POSITION_X -> PositionX(evalue)
      [] ecode = ABS_MT_POSITION_Y -> PositionY(evalue)
      [] ecode \in {ABS_PRESSURE, ABS_MT_PRESSURE} -> Pressure(evalue)
      [] ecode = ABS_MT_SLOT -> MtSlot(evalue)
      [] ecode = ABS_MT_TRACKING_ID -> TrackingId(evalue)
      [] OTHER -> Return

OnAbs(ecode, evalue) ==
    CASE ecode = ABS_MT_POSITION_X -> PositionX(evalue)
      [] ecode = ABS_MT_POSITION_Y -> PositionY(evalue)
      [] ecode = ABS_PRESSURE -> Pressure(evalue)
      [] ecode = ABS_MT_SLOT -> MtSlot(evalue)
      [] ecode = ABS_MT_TRACKING_ID -> TrackingId(evalue)
      [] OTHER -> Return

(* no test of the code of an EV_SYN event *)
OnSyn_AnyCode(ecode) == SynReport

OnSyn(ecode) ==
    IF ecode = SYN_REPORT THEN SynReport ELSE Return

receive(event) ==
    LET etype == event[1]
        ecode == event[2]
        evalue == event[3]
    IN IF etype = EV_ABS
       THEN OnAbs(ecode, evalue)
       ELSE IF etype = EV_SYN THEN OnSyn(ecode) ELSE Return

(* GLib runs one queued _draw_fingers callback on the GUI thread *)
_draw_fingers ==
    /\ idle > 0
    /\ idle' = idle - 1
    /\ fingers' = <<>>
    /\ UNCHANGED <<slot, slots, tid, tids, raised, script, mark, emitted, lastReport, lastKind>>
    /\ UNCHANGED threads

(* the reader thread reads one event and hands it to receive; an uncaught *)
(* exception ends the thread.  Free exploration runs with the GUI caught  *)
(* up, so that fingers holds the calls of at most one report.             *)
ReadEvent(event) ==
    /\ mark = NoMark
    /\ ~raised
    /\ idle = 0
    /\ receive(event)
    /\ lastReport' = IsReport(event)
    /\ UNCHANGED <<script, mark, emitted, threads>>

Read ==
    /\ \E event \in Events : ReadEvent(event)
    /\ UNCHANGED lastKind

(* the branch of receive an event takes, for the branches that change nothing *)
Kind(event) ==
    IF event[1] = EV_ABS
    THEN IF event[2] = ABS_PRESSURE
         THEN IF event[3] = 0 THEN "pressure0" ELSE "other"
         ELSE IF event[2] \in {ABS_MT_POSITION_X, ABS_MT_POSITION_Y, ABS_MT_SLOT,
                               ABS_MT_TRACKING_ID}
              THEN "other" ELSE "unknown"
    ELSE IF IsReport(event) THEN "other" ELSE "unknown"

(* Read, with the branch taken on record *)
ReadKind ==
    \E event \in Events : ReadEvent(event) /\ lastKind' = Kind(event)

(* ---- scenarios: event sequences the device delivers in one go, from any *)
(* state the free run of events reaches; the GUI thread gets its turn     *)
(* between two scenarios ----                                             *)
ReadFree ==
    /\ mark = NoMark
    /\ ~raised
    /\ idle = 0
    /\ \E event \in Events : receive(event)
    /\ UNCHANGED <<scenario, threads>>

DrawIdle ==
    /\ mark = NoMark
    /\ _draw_fingers

FirstScript(withSlot, t, x, y) ==
    (IF withSlot THEN <<AbsEvent(ABS_MT_SLOT, 0)>> ELSE <<>>)
    \o <<AbsEvent(ABS_MT_TRACKING_ID, t), AbsEvent(ABS_MT_POSITION_X, x),
         AbsEvent(ABS_MT_POSITION_Y, y), Report>>

TwoScript(s1, t1, x1, y1, s2, t2, x2, y2) ==
    <<AbsEvent(ABS_MT_SLOT, s1), AbsEvent(ABS_MT_TRACKING_ID, t1),
      AbsEvent(ABS_MT_POSITION_X, x1), AbsEvent(ABS_MT_POSITION_Y, y1),
      AbsEvent(ABS_MT_SLOT, s2), AbsEvent(ABS_MT_TRACKING_ID, t2),
      AbsEvent(ABS_MT_POSITION_X, x2), AbsEvent(ABS_MT_POSITION_Y, y2),
      Report>>

LiftScript(s) ==
    <<AbsEvent(ABS_MT_SLOT, s), AbsEvent(ABS_MT_TRACKING_ID, -1), Report>>

TwiceScript == <<Report, Report>>

ReuseScript(s, t2) ==
    <<AbsEvent(ABS_MT_SLOT, s), AbsEvent(ABS_MT_TRACKING_ID, -1),
      AbsEvent(ABS_MT_TRACKING_ID, t2)>>

(* position and pressure events, as delivered after a scenario *)
ContactEvents ==
    ({EV_ABS} \X {ABS_MT_POSITION_X, ABS_MT_POSITION_Y} \X PosValues)
    \cup ({EV_ABS} \X {ABS_PRESSURE} \X PressureValues)

AtStart ==
    /\ slot = 0 /\ tid = 0 /\ slots = EmptyDict /\ tids = EmptyDict
    /\ fingers = <<>> /\ idle = 0

Begin(name, params, events) ==
    /\ mark = NoMark
    /\ ~raised
    /\ idle = 0
    /\ mark' = <<name, params, <<slots, tids>>>>
    /\ script' = events
    /\ emitted' = <<>>
    /\ UNCHANGED <<device, lastReport, lastKind, threads>>

BeginFirst ==
    /\ AtStart
    /\ \E withSlot \in BOOLEAN, t \in TidValues \ {-1}, x \in PosValues, y \in PosValues :
        Begin("first", <<withSlot, t, x, y>>, FirstScript(withSlot, t, x, y))

BeginTwo ==
    /\ AtStart
    /\ \E s1 \in SlotValues, s2 \in SlotValues, t1 \in TidValues \ {-1},
       t2 \in TidValues \ {-1}, x1 \in PosValues, y1 \in PosValues,
       x2 \in PosValues, y2 \in PosValues :
        /\ s1 # s2
        /\ t1 # t2
        /\ Begin("two", <<t1, x1, y1, t2, x2, y2>>,
                 TwoScript(s1, t1, x1, y1, s2, t2, x2, y2))

BeginLift ==
    \E s \in DOMAIN slots :
        /\ slots[s] \in DOMAIN tids
        /\ Begin("lift", <<s, slots[s]>>, LiftScript(s))

BeginTwice ==
    Begin("twice", <<>>, TwiceScript)

BeginReuse ==
    \E s \in DOMAIN slots, t2 \in TidValues \ {-1} :
        /\ slots[s] \in DOMAIN tids
        /\ t2 # slots[s]
        /\ Begin("reuse", <<s, slots[s], t2>>, ReuseScript(s, t2))

(* the calls appended to fingers by the step *)
NewCalls == SubSeq(fingers', Len(fingers) + 1, Len(fingers'))

(* the reader thread hands the next event of the scenario to receive *)
ScriptStep ==
    /\ script # <<>>
    /\ ~raised
    /\ idle < MaxIdle
    /\ receive(Head(script))
    /\ script' = Tail(script)
    /\ emitted' = IF IsReport(Head(script)) THEN Append(emitted, NewCalls) ELSE emitted
    /\ UNCHANGED <<mark, lastReport, lastKind, threads>>

(* one more position or pressure event after a slot was reused *)
Trail ==
    /\ mark[1] = "reuse"
    /\ script = <<>>
    /\ ~raised
    /\ \E event \in ContactEvents : receive(event)
    /\ mark' = <<"reused", mark[2], mark[3]>>
    /\ UNCHANGED <<script, emitted, lastReport, lastKind, threads>>

(* the scenario is over once the GUI thread has run the pending callbacks *)
End ==
    /\ mark # NoMark
    /\ script = <<>>
    /\ mark' = NoMark
    /\ emitted' = <<>>
    /\ fingers' = <<>>
    /\ idle' = 0
    /\ UNCHANGED <<tracker, raised, script, lastReport, lastKind, threads>>

Next == Read \/ _draw_fingers

Spec == Init /\ [][Next]_vars

NextScen ==
    \/ ReadFree
    \/ DrawIdle
    \/ BeginFirst
    \/ BeginTwo
    \/ BeginLift
    \/ BeginTwice
    \/ BeginReuse
    \/ ScriptStep
    \/ Trail
    \/ End

SpecScen == Init /\ [][NextScen]_vars

(* ---- a device that keeps to the order of events of protocol B ---- *)
IsNewSlot(event) ==
    /\ event[1] = EV_ABS
    /\ event[2] = ABS_MT_SLOT
    /\ event[3] \notin DOMAIN slots

WellFormed(event) ==
    /\ lastKind = "newslot" =>
          /\ event[1] = EV_ABS
          /\ event[2] = ABS_MT_TRACKING_ID
          /\ event[3] # -1
    /\ (event[1] = EV_ABS /\ event[2] = ABS_MT_TRACKING_ID /\ event[3] # -1) =>
          /\ slot \notin DOMAIN slots
          /\ event[3] \notin DOMAIN tids
    /\ (event[1] = EV_ABS /\ event[2] = ABS_MT_TRACKING_ID /\ event[3] = -1) =>
          slot \in DOMAIN slots
    /\ (event[1] = EV_ABS
        /\ event[2] \in {ABS_MT_POSITION_X, ABS_MT_POSITION_Y, ABS_PRESSURE}) =>
          slot \in DOMAIN slots

ReadWellFormed ==
    \E event \in Events :
        /\ WellFormed(event)
        /\ ReadEvent(event)
        /\ lastKind' = IF IsNewSlot(event) THEN "newslot" ELSE "other"

NextWellFormed == ReadWellFormed \/ _draw_fingers

SpecWellFormed == Init /\ [][NextWellFormed]_vars

(* ---- the reader thread and the GUI thread, statement by statement ---- *)
ThreadEvents ==
    ({EV_ABS} \X {ABS_MT_TRACKING_ID} \X (TidValues \ {-1}))
    \cup ({EV_ABS} \X {ABS_MT_POSITION_X} \X {MaxPos})
    \cup {Report}

Tagged(calls, n) == [i \in 1 .. Len(calls) |-> <<n, calls[i]>>]

(* while self._running: *)
LoopTest ==
    /\ rpc = "test"
    /\ rpc' = IF running THEN "poll" ELSE "done"
    /\ UNCHANGED <<device, scenario, running, todo, gpc, gi, reports, ftag, frame, frames>>

(* poll.poll() returns with an event that is no report, dev.read() hands *)
(* it to receive                                                         *)
PollEvent ==
    /\ rpc = "poll"
    /\ ~raised
    /\ \E event \in ThreadEvents \ {Report} : receive(event)
    /\ rpc' = "test"
    /\ UNCHANGED <<scenario, running, todo, gpc, gi, reports, ftag, frame, frames>>

(* poll.poll() returns with a SYN_REPORT: receive enters its loop over *)
(* self.tids.items()                                                   *)
PollReport ==
    /\ rpc = "poll"
    /\ ~raised
    /\ Len(reports) < MaxReports
    /\ todo' = Snapshot(tids)
    /\ reports' = Append(reports, Tagged(Snapshot(tids), Len(reports) + 1))
    /\ rpc' = "update"
    /\ UNCHANGED <<device, scenario, running, gpc, gi, ftag, frame, frames>>

(* viewer.update_finger(i, pos[0], pos[1], 0, 0, pos[2]) *)
update_finger ==
    /\ rpc = "update"
    /\ todo # <<>>
    /\ fingers' = Append(fingers, Head(todo))
    /\ ftag' = Append(ftag, Len(reports))
    /\ todo' = Tail(todo)
    /\ UNCHANGED <<slot, slots, tid, tids, raised, idle, scenario, running, rpc,
                   gpc, gi, reports, frame, frames>>

(* viewer.draw_fingers(): GLib.idle_add(self._draw_fingers) *)
draw_fingers ==
    /\ rpc = "update"
    /\ todo = <<>>
    /\ idle' = idle + 1
    /\ rpc' = "test"
    /\ UNCHANGED <<slot, slots, tid, tids, raised, fingers, scenario, running, todo,
                   gpc, gi, reports, ftag, frame, frames>>

(* the main loop starts a queued _draw_fingers: the surface is filled white *)
DrawStart ==
    /\ gpc = "main"
    /\ idle > 0
    /\ idle' = idle - 1
    /\ gpc' = "draw"
    /\ gi' = 1
    /\ frame' = <<>>
    /\ UNCHANGED <<slot, slots, tid, tids, raised, fingers, scenario, running, rpc,
                   todo, reports, ftag, frames>>

(* one turn of: for num,x,y,dx,dy,p in self.fingers *)
draw_finger ==
    /\ gpc = "draw"
    /\ gi <= Len(fingers)
    /\ frame' = Append(frame, <<ftag[gi], fingers[gi]>>)
    /\ gi' = gi + 1
    /\ UNCHANGED <<device, scenario, running, rpc, todo, gpc, reports, ftag, frames>>

(* the for loop finds no further item; self.image.queue_draw() *)
DrawLoopEnd ==
    /\ gpc = "draw"
    /\ gi > Len(fingers)
    /\ gpc' = "clear"
    /\ UNCHANGED <<device, scenario, running, rpc, todo, gi, reports, ftag, frame, frames>>

(* self.fingers = [] *)
DrawClear ==
    /\ gpc = "clear"
    /\ fingers' = <<>>
    /\ ftag' = <<>>
    /\ frames' = Append(frames, frame)
    /\ gpc' = "main"
    /\ UNCHANGED <<slot, slots, tid, tids, raised, idle, scenario, running, rpc,
                   todo, gi, reports, frame>>

(* the window is closed: the handler runs on the GUI thread *)
destroy ==
    /\ gpc = "main"
    /\ running
    /\ running' = FALSE
    /\ gpc' = "quit"
    /\ UNCHANGED <<device, scenario, rpc, todo, gi, reports, ftag, frame, frames>>

ReaderStep == LoopTest \/ update_finger \/ draw_fingers
GuiStep == DrawStart \/ draw_finger \/ DrawLoopEnd \/ DrawClear

NextThreads ==
    \/ LoopTest
    \/ PollEvent
    \/ PollReport
    \/ update_finger
    \/ draw_fingers
    \/ DrawStart
    \/ draw_finger
    \/ DrawLoopEnd
    \/ DrawClear
    \/ destroy

SpecThreads == Init /\ [][NextThreads]_vars

(* both threads are scheduled; the device and the user owe no step *)
SpecThreadsFair ==
    /\ Init
    /\ [][NextThreads]_vars
    /\ WF_vars(ReaderStep)
    /\ WF_vars(GuiStep)

NextKind == ReadKind \/ _draw_fingers

SpecKind == Init /\ [][NextKind]_vars

(* ======================= properties ======================= *)

ToSet(seq) == {seq[n] : n \in 1 .. Len(seq)}
(* the tuple a report is to carry for contact t of dict d *)
Tuple(d, t) == <<t, d[t][1], d[t][2], 0, 0, d[t][3]>>
ContactSet(d) == {Tuple(d, t) : t \in DOMAIN d}
Done(name) == mark[1] = name /\ script = <<>>

(* C1: whatever the state and the event, receive completes normally: *)
(* no exception ever escapes it.                                     *)
C1_NeverRaises == raised = FALSE

(* C2: every tracking ID that is a value of slots is a key of tids. *)
C2_SlotsHaveContacts == \A s \in DOMAIN slots : slots[s] \in DOMAIN tids

(* C3: -1 is never a key of tids and never a value of slots. *)
C3_NoSentinel ==
    /\ -1 \notin DOMAIN tids
    /\ \A s \in DOMAIN slots : slots[s] # -1

(* slot -1 was selected and a contact was lifted by TRACKING_ID = -1 *)
C3_Witness ==
    /\ slot = -1
    /\ tid # 0
    /\ tid \notin DOMAIN tids
    /\ slots # EmptyDict

(* C4: a step that calls update_finger or draw_fingers is the handling *)
(* of a SYN_REPORT event.                                              *)
C4_OnlyOnReport ==
    [][(Len(fingers') > Len(fingers) \/ idle' > idle) => lastReport']_vars

(* a report of two contacts was emitted, and events that are not reports *)
(* were handled before it                                                *)
C4_Witness ==
    /\ lastReport
    /\ idle = 1
    /\ Len(fingers) = 2
    /\ slot # 0

(* C5: handling a SYN_REPORT calls update_finger exactly once per item of *)
(* tids, with (id, x, y, 0, 0, pressure), and then draw_fingers.          *)
C5_SnapshotExact ==
    [][(lastReport' /\ idle' >= idle) =>
          /\ idle' = idle + 1
          /\ ToSet(NewCalls) = ContactSet(tids)
          /\ Len(NewCalls) = Cardinality(DOMAIN tids)]_vars

(* a report of two contacts with values that are not the defaults *)
C5_Witness ==
    /\ lastReport
    /\ idle = 1
    /\ Len(fingers) = 2
    /\ \E t \in DOMAIN tids : tids[t] = <<MaxPos, 0, MaxPressure>>
    /\ \E t \in DOMAIN tids : tids[t] = <<0, MaxPos, 0>>

(* C6: from the initial state, [SLOT=0,] TRACKING_ID=t, POSITION_X=x,  *)
(* POSITION_Y=y, SYN_REPORT emits the one tuple (t, x, y, 0, 0, 0) and *)
(* leaves slots = {0: t}.                                              *)
C6_FirstContact ==
    /\ mark[1] = "first" => ~raised
    /\ Done("first") =>
          /\ emitted = << << <<mark[2][2], mark[2][3], mark[2][4], 0, 0, 0>> >> >>
          /\ slots = [s \in {0} |-> mark[2][2]]

C6_Witness ==
    /\ Done("first")
    /\ mark[2][1] = FALSE
    /\ mark[2][3] = MaxPos
    /\ mark[2][4] = 0
    /\ emitted # <<>>

(* C7: from the initial state, two contacts interleaved in two slots are *)
(* reported as {(t1,x1,y1,0,0,0), (t2,x2,y2,0,0,0)}.                     *)
C7_TwoContacts ==
    /\ mark[1] = "two" => ~raised
    /\ Done("two") =>
          /\ Len(emitted) = 1
          /\ Len(emitted[1]) = 2
          /\ ToSet(emitted[1]) =
                {<<mark[2][1], mark[2][2], mark[2][3], 0, 0, 0>>,
                 <<mark[2][4], mark[2][5], mark[2][6], 0, 0, 0>>}

C7_Witness ==
    /\ Done("two")
    /\ mark[2][2] # mark[2][5]
    /\ mark[2][3] # mark[2][6]
    /\ Len(emitted) = 1

(* C8: where slot s maps to t and tids has t, SLOT=s, TRACKING_ID=-1,    *)
(* SYN_REPORT removes tids[t] and slots[s] and nothing else; the report *)
(* has no tuple for t.                                                  *)
C8_Lift ==
    /\ mark[1] = "lift" => ~raised
    /\ Done("lift") =>
          LET s == mark[2][1]
              t == mark[2][2]
              slots0 == mark[3][1]
              tids0 == mark[3][2]
          IN /\ Len(emitted) = 1
             /\ \A c \in ToSet(emitted[1]) : c[1] # t
             /\ s \notin DOMAIN slots
             /\ t \notin DOMAIN tids
             /\ DOMAIN slots = (DOMAIN slots0) \ {s}
             /\ \A k \in DOMAIN slots : slots[k] = slots0[k]
             /\ DOMAIN tids = (DOMAIN tids0) \ {t}
             /\ \A k \in DOMAIN tids : tids[k] = tids0[k]

(* a lift that left another contact and another slot in place *)
C8_Witness ==
    /\ Done("lift")
    /\ tids # EmptyDict
    /\ slots # EmptyDict
    /\ Len(emitted) = 1

(* C9: handling SYN_REPORT leaves slot, tid, slots and tids unchanged,   *)
(* and two reports in a row each carry the tuples of the current tids.  *)
C9_ReportIdempotent ==
    [][/\ (script # <<>> /\ IsReport(Head(script)) /\ script' = Tail(script)) =>
             UNCHANGED tracker
       /\ (mark'[1] = "twice" /\ script' = <<>>) =>
             /\ Len(emitted') = 2
             /\ emitted'[1] = emitted'[2]
             /\ ToSet(emitted'[1]) = ContactSet(tids')
             /\ Len(emitted'[1]) = Cardinality(DOMAIN tids')]_vars

C9_Witness ==
    /\ Done("twice")
    /\ Len(emitted) = 2
    /\ Len(emitted[2]) = 2
    /\ idle = 2

(* C10 as stated: after contact t1 of slot s is lifted, TRACKING_ID=t2   *)
(* creates contact t2 with (0, 0, 0), t1 is not recreated, and a        *)
(* position or pressure event that follows changes contact t2 only.     *)
C10_SlotReuseOriginal ==
    [][/\ mark'[1] = "reuse" => ~raised'
       /\ (mark'[1] = "reuse" /\ script' = <<>>) =>
             /\ mark'[2][2] \notin DOMAIN tids'
             /\ mark'[2][3] \in DOMAIN tids'
             /\ tids'[mark'[2][3]] = <<0, 0, 0>>
       /\ (mark[1] = "reuse" /\ mark'[1] = "reused") =>
             /\ ~raised'
             /\ slots' = slots
             /\ DOMAIN tids' = DOMAIN tids
             /\ \A k \in (DOMAIN tids) \ {mark[2][3]} : tids'[k] = tids[k]]_vars

(* C10 amended: contact t2 starts at (0, 0, 0) when tids had no item t2 at *)
(* the lift, and keeps the values of the existing item t2 otherwise.       *)
C10_SlotReuse ==
    [][/\ mark'[1] = "reuse" => ~raised'
       /\ (mark'[1] = "reuse" /\ script' = <<>>) =>
             /\ mark'[2][2] \notin DOMAIN tids'
             /\ mark'[2][3] \in DOMAIN tids'
             /\ tids'[mark'[2][3]] =
                   IF mark'[2][3] \in DOMAIN mark'[3][2]
                   THEN mark'[3][2][mark'[2][3]]
                   ELSE <<0, 0, 0>>
       /\ (mark[1] = "reuse" /\ mark'[1] = "reused") =>
             /\ ~raised'
             /\ slots' = slots
             /\ DOMAIN tids' = DOMAIN tids
             /\ \A k \in (DOMAIN tids) \ {mark[2][3]} : tids'[k] = tids[k]]_vars

(* slot reused for a fresh ID after a contact with set values was lifted, *)
(* and the new contact then moved                                         *)
C10_Witness ==
    /\ mark[1] = "reused"
    /\ mark[3][2][mark[2][2]] = <<MaxPos, MaxPos, MaxPressure>>
    /\ mark[2][3] \notin DOMAIN mark[3][2]
    /\ tids[mark[2][3]] # <<0, 0, 0>>

(* C11: an (EV_ABS, ABS_PRESSURE) event of value 0 leaves slot, tid, slots *)
(* and tids as they are: no pressure is reset, no contact is removed.      *)
C11_PressureZeroIgnored ==
    [][lastKind' = "pressure0" => UNCHANGED tracker]_vars

(* pressure 0 was handled while the current contact had a pressure set *)
C11_Witness ==
    /\ lastKind = "pressure0"
    /\ tid \in DOMAIN tids
    /\ tids[tid][3] = MaxPressure
    /\ Cardinality(DOMAIN tids) = 2

(* C12: an event whose (type, code) receive does not know leaves tids and *)
(* slots as they are and calls neither update_finger nor draw_fingers.    *)
C12_UnknownIgnored ==
    [][lastKind' = "unknown" =>
          /\ tids' = tids
          /\ slots' = slots
          /\ Len(fingers') <= Len(fingers)
          /\ idle' <= idle]_vars

(* an unknown event was handled while two slots and two contacts were live *)
C12_Witness ==
    /\ lastKind = "unknown"
    /\ Cardinality(DOMAIN tids) = 2
    /\ Cardinality(DOMAIN slots) = 2
    /\ idle = 0

(* the reader thread hands event to receive in this step *)
Handles(event) == ~raised /\ receive(event)

(* C13: ABS_MT_TRACKING_ID = -1 never fails: what tids holds for tid and  *)
(* slots for slot is removed, what is absent is skipped, the rest stays. *)
C13_RemovalNeverFails ==
    [][Handles(AbsEvent(ABS_MT_TRACKING_ID, -1)) =>
          /\ ~raised'
          /\ DOMAIN tids' = (DOMAIN tids) \ {tid}
          /\ \A k \in DOMAIN tids' : tids'[k] = tids[k]
          /\ DOMAIN slots' = (DOMAIN slots) \ {slot}
          /\ \A k \in DOMAIN slots' : slots'[k] = slots[k]]_vars

(* C14: with no item for tid in tids, ABS_MT_POSITION_X, ABS_MT_POSITION_Y *)
(* and a non-zero ABS_PRESSURE are ignored without a failure.              *)
C14_StaleIgnored ==
    [][\A event \in ContactEvents :
          (tid \notin DOMAIN tids /\ Handles(event)) =>
             /\ ~raised'
             /\ tids' = tids
             /\ slots' = slots]_vars

(* C15: ABS_MT_SLOT of value v sets slot to v, sets tid to slots[v] when v *)
(* is a key of slots and keeps tid otherwise; tids and slots stay.         *)
C15_SlotSelect ==
    [][\A v \in SlotValues :
          Handles(AbsEvent(ABS_MT_SLOT, v)) =>
             /\ slot' = v
             /\ tid' = IF v \in DOMAIN slots THEN slots[v] ELSE tid
             /\ tids' = tids
             /\ slots' = slots]_vars

(* a slot with no tracking ID is selected and tid is still the ID of the *)
(* contact of another slot                                               *)
C15_Witness ==
    /\ slot \notin DOMAIN slots
    /\ tid \in DOMAIN tids
    /\ \E s \in DOMAIN slots : slots[s] = tid
    /\ tids[tid] # <<0, 0, 0>>

(* C16: ABS_MT_TRACKING_ID of value v # -1 sets tid and slots[slot] to v   *)
(* and adds tids[v] = (0, 0, 0) only when tids has no v; every other item *)
(* of tids and of slots stays, the one of the ID the slot held included.  *)
C16_NewContact ==
    [][\A v \in TidValues \ {-1} :
          Handles(AbsEvent(ABS_MT_TRACKING_ID, v)) =>
             /\ tid' = v
             /\ slot' = slot
             /\ DOMAIN slots' = (DOMAIN slots) \cup {slot}
             /\ slots'[slot] = v
             /\ \A k \in (DOMAIN slots) \ {slot} : slots'[k] = slots[k]
             /\ DOMAIN tids' = (DOMAIN tids) \cup {v}
             /\ tids'[v] = IF v \in DOMAIN tids THEN tids[v] ELSE <<0, 0, 0>>
             /\ \A k \in (DOMAIN tids) \ {v} : tids'[k] = tids[k]]_vars

(* the slot was given a second tracking ID: the contact of the first one *)
(* is still in tids, with its values, and no slot holds it               *)
C16_Witness ==
    /\ slot \in DOMAIN slots
    /\ tid = slots[slot]
    /\ \E t \in DOMAIN tids :
          /\ \A s \in DOMAIN slots : slots[s] # t
          /\ tids[t] = <<MaxPos, MaxPos, MaxPressure>>
    /\ Cardinality(DOMAIN slots) = 1

(* C18: when slot is a key of slots, tid is slots[slot]. *)
C18_CursorConsistent ==
    slot \in DOMAIN slots => tid = slots[slot]

(* the cursor follows a slot selection between two mapped slots *)
C18_Witness ==
    /\ Cardinality(DOMAIN slots) = 2
    /\ slot \in DOMAIN slots
    /\ slot # 0
    /\ tid = slots[slot]
    /\ \E s \in DOMAIN slots : slots[s] # tid

Range(d) == {d[k] : k \in DOMAIN d}

(* C19: under protocol B ordering receive never raises, no two slots hold *)
(* the same tracking ID, and the keys of tids are the values of slots.    *)
C19_WellFormedInput ==
    /\ ~raised
    /\ \A s1 \in DOMAIN slots, s2 \in DOMAIN slots :
          slots[s1] = slots[s2] => s1 = s2
    /\ DOMAIN tids = Range(slots)

(* two contacts in two slots, each with x, y and pressure set, reported *)
C19_Witness ==
    /\ Cardinality(DOMAIN tids) = 2
    /\ \A t \in DOMAIN tids : tids[t] = <<MaxPos, MaxPos, MaxPressure>>
    /\ lastReport
    /\ idle = 1

(* C17: every _draw_fingers draws exactly the calls of one report, and  *)
(* once both threads are at rest every report has been drawn: no call  *)
(* is lost, none is drawn with the calls of another report.            *)
C17_HandoffSafe ==
    /\ \A k \in 1 .. Len(frames) : \E r \in 1 .. Len(reports) : frames[k] = reports[r]
    /\ (rpc \in {"test", "poll", "done"} /\ idle = 0 /\ gpc = "main") =>
          \A r \in 1 .. Len(reports) : \E k \in 1 .. Len(frames) : frames[k] = reports[r]

(* C20: once destroy has set _running to False, the loop of readValues *)
(* comes to its end.                                                   *)
C20_ReaderStops == (~running) ~> (rpc = "done")
====
